---- MODULE Spec2Model ----
(***************************************************************************)
(* Round lifecycle engine of the node (src/src/modules/rounds.ts):         *)
(* RoundsModule.tick / backwardTick / innerTick / getOutsiders / sumRound, *)
(* together with the collaborators the engine calls (RoundLogic, the       *)
(* RoundsModel, the delegates module, the db helper and the bus), which    *)
(* are not part of src/ and are modelled from spec.md sections 4.1 - 4.8.  *)
(* Spec runs the calls one at a time behind the block pipeline, SpecAsync  *)
(* runs them await by await with two callers, SpecSlate runs the delegate  *)
(* selection of spec.md 4.4 beside the ticks of a chain.                   *)
(***************************************************************************)
EXTENDS Integers, Sequences, FiniteSets, TLC

(***************************************************************************)
(* Bounds of the model.                                                    *)
(***************************************************************************)
\* N, constants.activeDelegates (101 in production)
ActiveDelegates == 2
\* number of delegate accounts that exist: one more than a slate holds
NumDelegates == ActiveDelegates + 1
\* the chain is grown up to this height
MaxHeight == 5
\* the rounds a snapshot is verified for
SnapshotRounds == {2}
\* how many undone blocks are remembered for the replay comparison
MaxUndone == 2
\* callers that may have a call in flight at the same time
Callers == {1, 2}
\* calls started in one run of the concurrent engine
MaxCalls == 3

VARIABLES
  blocks,    \* BlocksModel: the persisted blocks, by height
  applied,   \* height up to which the round ticks have been applied
  accounts,  \* AccountsModel: the delegate rows, by address
  appState,  \* AppState flags rounds.isLoaded / isTicking / snapshot
  seed,      \* what the delegate slate of a round is derived from
  lastCall,  \* the last completed tick / backwardTick call: scope, ops, events
  snaps,     \* snaps[h]: the delegate table as it was before tick(blocks[h])
  undone,    \* blocks undone from a round end on, with the table each had left
  calls,     \* the tick / backwardTick calls in flight, each at its await
  started,   \* number of calls started so far
  slates,    \* the delegates module: selection in progress, lists produced
  transport  \* the transport API: peers known, receiveBlock messages published

vars == <<blocks, applied, accounts, appState, seed, lastCall, snaps, undone,
          calls, started, slates, transport>>

(***************************************************************************)
(* Plain helpers.                                                          *)
(***************************************************************************)
RECURSIVE SumSeq(_)
SumSeq(s) == IF s = <<>> THEN 0 ELSE Head(s) + SumSeq(Tail(s))

Reverse(s) == [i \in 1..Len(s) |-> s[Len(s) + 1 - i]]

Range(s) == {s[i] : i \in DOMAIN s}

\* the key that forged the genesis block is not a delegate's
GenesisKey == 0

Delegates == 1..NumDelegates

PublicKeys == {GenesisKey} \cup Delegates

\* values of the persisted state the slates are derived from
Seeds == {0, 1}

\* Buffer.toString('hex'): the key in its textual form
toHex(pk) == <<"hex", pk>>

\* accountLogic.generateAddressByPublicKey: hash-derived, distinct per key
generateAddressByPublicKey(pk) == 100 + pk

Addresses == {generateAddressByPublicKey(pk) : pk \in PublicKeys}

\* The database returns SUM / ARRAY_AGG of numeric columns as decimal text.
RECURSIVE toDecimalText(_)
toDecimalText(n) ==
  IF n < 10 THEN <<n>> ELSE Append(toDecimalText(n \div 10), n % 10)

\* parseFloat on decimal text (whole numbers below 2^53 are represented exactly)
RECURSIVE parseFloat(_)
parseFloat(txt) ==
  IF Len(txt) = 1 THEN txt[1]
  ELSE 10 * parseFloat(SubSeq(txt, 1, Len(txt) - 1)) + txt[Len(txt)]

\* Math.floor of a parsed whole number
MathFloor(x) == x

(***************************************************************************)
(* RoundMath (roundsLogic), spec.md 3 and 4.1.                             *)
(***************************************************************************)
calcRound(height) == (height + ActiveDelegates - 1) \div ActiveDelegates

lastInRound(round) == round * ActiveDelegates

firstInRound(round) == (round - 1) * ActiveDelegates + 1

\* constants.dposv2.firstBlock as the integration test sets it
Dposv2FirstBlock == ActiveDelegates + 1

(***************************************************************************)
(* BlockStore and DelegateSlate, spec.md 4.3 and 4.4.                      *)
(***************************************************************************)
\* RoundsModel.sumRound: the persisted blocks of the round, height ascending
RoundsModelSumRound(activeDelegates, round, blks) ==
  LET hs   == {h \in 1..Len(blks) :
                 (h + activeDelegates - 1) \div activeDelegates = round}
      lo   == IF hs = {} THEN 1 ELSE CHOOSE h \in hs : \A k \in hs : h <= k
      n    == Cardinality(hs)
      rows == [i \in 1..n |-> blks[lo + i - 1]]
  IN [fees      |-> toDecimalText(SumSeq([i \in 1..n |-> rows[i].totalFee])),
      rewards   |-> [i \in 1..n |-> toDecimalText(rows[i].reward)],
      delegates |-> [i \in 1..n |-> rows[i].generatorPublicKey]]

\* delegatesModule.generateDelegateList: N distinct keys, fixed per round
generateDelegateList(height, sd) ==
  [i \in 1..ActiveDelegates |->
     ((sd + calcRound(height) + i) % NumDelegates) + 1]

(***************************************************************************)
(* RoundsModule.sumRound, getOutsiders, getSnapshotRounds.                 *)
(***************************************************************************)
sumRound(round, blks) ==
  LET res == RoundsModelSumRound(ActiveDelegates, round, blks)
  IN [roundRewards   |-> [i \in DOMAIN res.rewards |->
                            MathFloor(parseFloat(res.rewards[i]))],
      roundFees      |-> MathFloor(parseFloat(res.fees)),
      roundDelegates |-> res.delegates]

\* variant: the slate is not filtered by the forging delegates
getOutsidersNoFilter(round, roundDelegates, sd) ==
  LET originalDelegates == generateDelegateList(lastInRound(round), sd)
  IN [i \in 1..Len(originalDelegates) |->
        generateAddressByPublicKey(originalDelegates[i])]

getOutsiders(round, roundDelegates, sd) ==
  LET strPKDelegates    == {toHex(roundDelegates[i]) : i \in DOMAIN roundDelegates}
      height            == lastInRound(round)
      originalDelegates == generateDelegateList(height, sd)
      missed            == SelectSeq(originalDelegates,
                                     LAMBDA pk : toHex(pk) \notin strPKDelegates)
  IN [i \in 1..Len(missed) |-> generateAddressByPublicKey(missed[i])]

\* appStateLogic.get('rounds.snapshot') || 0: an unset flag reads as 0
getSnapshotRounds(state) ==
  IF state.snapshot = <<>> THEN 0 ELSE state.snapshot[1]

(***************************************************************************)
(* RoundLogic (RoundOps), spec.md 4.5.                                     *)
(***************************************************************************)
MergeOp(address, balance, produced, missed, round) ==
  [type |-> "merge", address |-> address, balance |-> balance,
   u_balance |-> balance, producedblocks |-> produced,
   missedblocks |-> missed, round |-> round]

\* Only the producedblocks counter: the integration test finds every balance
\* unchanged by the ticks that do not end a round.
mergeBlockGenerator(scope) ==
  << MergeOp(generateAddressByPublicKey(scope.block.generatorPublicKey), 0,
             IF scope.backwards THEN -1 ELSE 1, 0, scope.round) >>

apply(scope) ==
  IF ~scope.finishRound THEN <<>>
  ELSE
    LET n         == Len(scope.roundDelegates)
        per       == scope.roundFees \div ActiveDelegates
        remainder == scope.roundFees - per * ActiveDelegates
        share(i)  == per + scope.roundRewards[i]
                         + (IF i = n THEN remainder ELSE 0)
    IN [i \in 1..n |->
          MergeOp(generateAddressByPublicKey(scope.roundDelegates[i]),
                  share(i), 0, 0, scope.round)]
       \o
       [j \in 1..Len(scope.roundOutsiders) |->
          MergeOp(scope.roundOutsiders[j], 0, 0, 1, scope.round)]

Negate(op) ==
  [op EXCEPT !.balance = 0 - @, !.u_balance = 0 - @,
             !.producedblocks = 0 - @, !.missedblocks = 0 - @]

undo(scope) ==
  IF ~(scope.finishRound /\ scope.backwards) THEN <<>>
  ELSE LET fwd == apply(scope)
       IN Reverse([i \in 1..Len(fwd) |-> Negate(fwd[i])])

markBlockId(scope) ==
  [type |-> "markBlockId", height |-> scope.block.height, id |-> scope.block.id]

truncateBlocks(scope) ==
  [type |-> "truncateBlocks", height |-> lastInRound(scope.round)]

(***************************************************************************)
(* DBHelper.performOps on the account rows and the block table.            *)
(***************************************************************************)
performOp(op, db) ==
  CASE op.type = "merge" ->
         [db EXCEPT !.accounts[op.address] =
            [@ EXCEPT !.balance        = @ + op.balance,
                      !.u_balance      = @ + op.u_balance,
                      !.producedblocks = @ + op.producedblocks,
                      !.missedblocks   = @ + op.missedblocks]]
    [] op.type = "truncateBlocks" ->
         [db EXCEPT !.blocks =
            IF Len(@) > op.height THEN SubSeq(@, 1, op.height) ELSE @]
    [] OTHER -> db

RECURSIVE performOps(_, _)
performOps(ops, db) ==
  IF ops = <<>> THEN db ELSE performOps(Tail(ops), performOp(Head(ops), db))

(***************************************************************************)
(* RoundsModule.innerTick up to the RoundLogicScope, and the op batches    *)
(* the two txGenerators hand to performOps.                                *)
(***************************************************************************)
\* variant: the genesis block is not a round end of its own
finishRoundOfNextRoundOnly(block) ==
  LET round     == calcRound(block.height)
      nextRound == calcRound(block.height + 1)
  IN nextRound # round

finishRoundOf(block) ==
  LET round     == calcRound(block.height)
      nextRound == calcRound(block.height + 1)
  IN (nextRound # round) \/ (block.height = 1)

\* variant: the genesis correction is not restricted to height 1
roundSumsOfAnyHeight(block, blks) ==
  LET sums == sumRound(calcRound(block.height), blks)
  IN IF Len(sums.roundDelegates) # 1
     THEN [roundFees |-> 0, roundRewards |-> <<0>>,
           roundDelegates |-> <<block.generatorPublicKey>>]
     ELSE sums

\* variant: the sums of sumRound are used as they come at every height
roundSumsOfUncorrected(block, blks) ==
  sumRound(calcRound(block.height), blks)

roundSumsOf(block, blks) ==
  LET sums == sumRound(calcRound(block.height), blks)
  IN IF block.height = 1 /\ Len(sums.roundDelegates) # 1
     THEN [roundFees |-> 0, roundRewards |-> <<0>>,
           roundDelegates |-> <<block.generatorPublicKey>>]
     ELSE sums

NullSums == [roundFees |-> 0, roundRewards |-> <<>>, roundDelegates |-> <<>>]

buildScope(block, backwards, roundSums, roundOutsiders) ==
  [backwards      |-> backwards,
   block          |-> block,
   dposV2         |-> block.height >= Dposv2FirstBlock,
   finishRound    |-> finishRoundOf(block),
   round          |-> calcRound(block.height),
   roundOutsiders |-> roundOutsiders,
   roundFees      |-> roundSums.roundFees,
   roundRewards   |-> roundSums.roundRewards,
   roundDelegates |-> roundSums.roundDelegates]

\* innerTick from its entry to the scope handed to the txGenerator
roundLogicScope(block, backwards, blks, sd) ==
  LET round          == calcRound(block.height)
      finishRound    == finishRoundOf(block)
      roundSums      == IF finishRound THEN roundSumsOf(block, blks) ELSE NullSums
      roundOutsiders == IF finishRound
                        THEN getOutsiders(round, roundSums.roundDelegates, sd)
                        ELSE <<>>
  IN buildScope(block, backwards, roundSums, roundOutsiders)

\* variant: the apply ops are pushed twice
tickOpsApplyTwice(scope, state) ==
  LET snapshotRound == getSnapshotRounds(state) > 0
                       /\ getSnapshotRounds(state) = scope.round
  IN mergeBlockGenerator(scope)
     \o apply(scope) \o apply(scope)
     \o (IF scope.finishRound /\ snapshotRound
         THEN <<truncateBlocks(scope)>> ELSE <<>>)
     \o <<markBlockId(scope)>>

\* variant: truncateBlocks is pushed without looking at finishRound
tickOpsTruncateAnyBlock(scope, state) ==
  LET snapshotRound == getSnapshotRounds(state) > 0
                       /\ getSnapshotRounds(state) = scope.round
  IN mergeBlockGenerator(scope)
     \o apply(scope)
     \o (IF snapshotRound THEN <<truncateBlocks(scope)>> ELSE <<>>)
     \o <<markBlockId(scope)>>

\* variant: the batch starts without the mergeBlockGenerator ops
tickOpsNoGenerator(scope, state) ==
  LET snapshotRound == getSnapshotRounds(state) > 0
                       /\ getSnapshotRounds(state) = scope.round
  IN apply(scope)
     \o (IF scope.finishRound /\ snapshotRound
         THEN <<truncateBlocks(scope)>> ELSE <<>>)
     \o <<markBlockId(scope)>>

\* variant: markBlockId is pushed before truncateBlocks
tickOpsTruncateLast(scope, state) ==
  LET snapshotRound == getSnapshotRounds(state) > 0
                       /\ getSnapshotRounds(state) = scope.round
  IN mergeBlockGenerator(scope)
     \o apply(scope)
     \o <<markBlockId(scope)>>
     \o (IF scope.finishRound /\ snapshotRound
         THEN <<truncateBlocks(scope)>> ELSE <<>>)

\* variant: the generator is credited the block's reward and fee at its tick
tickOpsCreditGenerator(scope, state) ==
  LET snapshotRound == getSnapshotRounds(state) > 0
                       /\ getSnapshotRounds(state) = scope.round
  IN mergeBlockGenerator(scope)
     \o << MergeOp(generateAddressByPublicKey(scope.block.generatorPublicKey),
                   scope.block.reward + scope.block.totalFee, 0, 0, scope.round) >>
     \o apply(scope)
     \o (IF scope.finishRound /\ snapshotRound
         THEN <<truncateBlocks(scope)>> ELSE <<>>)
     \o <<markBlockId(scope)>>

\* variant: truncateBlocks is pushed at every round end
tickOpsTruncateEveryRoundEnd(scope, state) ==
  mergeBlockGenerator(scope)
  \o apply(scope)
  \o (IF scope.finishRound THEN <<truncateBlocks(scope)>> ELSE <<>>)
  \o <<markBlockId(scope)>>

tickOps(scope, state) ==
  LET snapshotRound == getSnapshotRounds(state) > 0
                       /\ getSnapshotRounds(state) = scope.round
  IN mergeBlockGenerator(scope)
     \o apply(scope)
     \o (IF scope.finishRound /\ snapshotRound
         THEN <<truncateBlocks(scope)>> ELSE <<>>)
     \o <<markBlockId(scope)>>

\* variant: the backward tick pushes apply() where undo() belongs
backwardTickOpsApply(scope) ==
  mergeBlockGenerator(scope) \o apply(scope) \o <<markBlockId(scope)>>

\* variant: the backward tick leaves out the mergeBlockGenerator ops
backwardTickOpsNoGenerator(scope) ==
  undo(scope) \o <<markBlockId(scope)>>

\* variant: the undo ops are pushed before the mergeBlockGenerator ops
backwardTickOpsUndoFirst(scope) ==
  undo(scope) \o mergeBlockGenerator(scope) \o <<markBlockId(scope)>>

\* variant: the round is undone in apply()'s order
backwardTickOpsUnreversed(scope) ==
  LET fwd == apply(scope)
  IN mergeBlockGenerator(scope)
     \o (IF scope.finishRound /\ scope.backwards
         THEN [i \in 1..Len(fwd) |-> Negate(fwd[i])] ELSE <<>>)
     \o <<markBlockId(scope)>>

backwardTickOps(scope) ==
  mergeBlockGenerator(scope) \o undo(scope) \o <<markBlockId(scope)>>

\* variant: the finishRound message is sent without looking at finishRound
tickEventsAlways(scope) == << <<"finishRound", scope.round>> >>

tickEvents(scope) ==
  IF scope.finishRound THEN << <<"finishRound", scope.round>> >> ELSE <<>>

backwardTickEvents(block) == << <<"roundBackwardTick", block.height>> >>

\* appStateLogic.set('rounds.isTicking', value)
setTicking(state, value) == [state EXCEPT !.isTicking = value]

\* the end of innerTick's try block: the flag is cleared, the call resolves
\* variant: the call resolves with the flag left as it is
innerTickEndKeepFlag(state, call) ==
  [appState |-> state,
   call     |-> [call EXCEPT !.pc = "returned", !.result = <<"resolved">>]]

innerTickEnd(state, call) ==
  [appState |-> setTicking(state, FALSE),
   call     |-> [call EXCEPT !.pc = "returned", !.result = <<"resolved">>]]

\* variant: the catch block throws again without clearing the flag
innerTickCatchKeepFlag(state, call, e) ==
  [appState |-> state,
   call     |-> [call EXCEPT !.pc = "returned", !.result = <<"rejected", e>>]]

\* variant: the catch block clears the flag and swallows the error
innerTickCatchSwallow(state, call, e) ==
  [appState |-> setTicking(state, FALSE),
   call     |-> [call EXCEPT !.pc = "returned", !.result = <<"resolved">>]]

\* innerTick's catch block: the flag is cleared and the error thrown again
innerTickCatch(state, call, e) ==
  [appState |-> setTicking(state, FALSE),
   call     |-> [call EXCEPT !.pc = "returned", !.result = <<"rejected", e>>]]

(***************************************************************************)
(* Initial state: the genesis block is persisted, no tick applied yet.     *)
(***************************************************************************)
GenesisBlock ==
  [id |-> 1, height |-> 1, generatorPublicKey |-> GenesisKey,
   reward |-> 0, totalFee |-> 0]

InitAccounts ==
  [a \in Addresses |->
     [balance |-> 0, u_balance |-> 0, producedblocks |-> 0, missedblocks |-> 0,
      vote |-> 200 - a, votesWeight |-> 200 - a, rank |-> a - 100]]

NoCall == [kind |-> "none"]

\* the delegates module has not been asked for a list
NoSlate == [pc |-> "off"]

\* the transport API before any request: no peer known, nothing published
NoTransport == [peers |-> {}, published |-> <<>>]

IdleCall == [pc |-> "idle"]

Init ==
  /\ blocks = <<GenesisBlock>>
  /\ applied = 0
  /\ accounts = InitAccounts
  /\ appState = [isLoaded |-> FALSE, isTicking |-> FALSE, snapshot |-> <<>>]
  /\ seed \in Seeds
  /\ lastCall = NoCall
  /\ snaps = <<>>
  /\ undone = <<>>
  /\ calls = [c \in Callers |-> IdleCall]
  /\ started = 0
  /\ slates = NoSlate
  /\ transport = NoTransport

(***************************************************************************)
(* The block pipeline around the engine (spec.md 2, control flow).         *)
(***************************************************************************)
BlockKinds ==
  {[reward |-> 1, totalFee |-> 0],
   [reward |-> 2, totalFee |-> ActiveDelegates + 1]}

\* the pipeline persists the next block, forged by a delegate of the slate
\* of its round; its tick follows
saveBlock(gen, kind) ==
  /\ applied = Len(blocks)
  /\ Len(blocks) < MaxHeight
  /\ getSnapshotRounds(appState) = 0
  \* the block is forged by the first or the last delegate of the slate
  /\ LET list == generateDelegateList(Len(blocks) + 1, seed)
     IN gen \in {list[1], list[Len(list)]}
  /\ LET block == [id |-> Len(blocks) + 1, height |-> Len(blocks) + 1,
                   generatorPublicKey |-> gen,
                   reward |-> kind.reward, totalFee |-> kind.totalFee]
     IN /\ blocks' = Append(blocks, block)
        \* the record of undone blocks is kept while the same blocks return
        /\ undone' = IF undone # <<>> /\ undone[1].block = block
                     THEN undone ELSE <<>>
  /\ lastCall' = NoCall
  /\ UNCHANGED <<applied, accounts, appState, seed, snaps, calls, started, slates, transport>>

\* the pipeline drops the block whose backwardTick was just performed
deleteBlock ==
  /\ applied = Len(blocks) - 1
  /\ applied >= 1
  /\ lastCall.kind = "backwardTick"
  /\ blocks' = SubSeq(blocks, 1, applied)
  /\ lastCall' = NoCall
  /\ UNCHANGED <<applied, accounts, appState, seed, snaps, undone,
                 calls, started, slates, transport>>

(***************************************************************************)
(* RoundsModule.tick and RoundsModule.backwardTick, each call run to its   *)
(* end with every awaited promise resolved (the pipeline serializes them). *)
(***************************************************************************)
tick ==
  /\ applied < Len(blocks)
  /\ LET block  == blocks[applied + 1]
         scope  == roundLogicScope(block, FALSE, blocks, seed)
         ops    == tickOps(scope, appState)
         db     == performOps(ops, [accounts |-> accounts, blocks |-> blocks])
         replay == undone # <<>> /\ undone[1].block = block
     IN /\ accounts' = db.accounts
        /\ blocks' = db.blocks
        /\ applied' = block.height
        /\ appState' = setTicking(setTicking(appState, TRUE), FALSE)
        /\ snaps' = Append(snaps, accounts)
        /\ undone' = IF replay THEN Tail(undone) ELSE <<>>
        /\ lastCall' = [kind     |-> "tick",
                        pre      |-> accounts,
                        restored |-> <<>>,
                        backRun  |-> 0,
                        scope    |-> scope,
                        ops      |-> ops,
                        events   |-> tickEvents(scope),
                        sumRead  |-> scope.finishRound,
                        summed   |-> IF scope.finishRound
                                     THEN sumRound(scope.round, blocks)
                                     ELSE NullSums,
                        listRead |-> scope.finishRound,
                        result   |-> "resolved",
                        replayed |-> IF replay THEN <<undone[1].post>> ELSE <<>>,
                        replayRun |-> IF replay THEN undone[1].deep ELSE 0]
  /\ UNCHANGED <<seed, calls, started, slates, transport>>

backwardTick ==
  /\ applied = Len(blocks)
  /\ applied > 1
  /\ LET block == blocks[applied]
         scope == roundLogicScope(block, TRUE, blocks, seed)
         ops   == backwardTickOps(scope)
         db    == performOps(ops, [accounts |-> accounts, blocks |-> blocks])
         entry == [block |-> block, post |-> accounts, deep |-> Len(undone) + 1]
     IN /\ accounts' = db.accounts
        /\ blocks' = db.blocks
        /\ applied' = block.height - 1
        /\ appState' = setTicking(setTicking(appState, TRUE), FALSE)
        /\ snaps' = SubSeq(snaps, 1, applied - 1)
        /\ undone' = IF undone = <<>>
                     THEN (IF scope.finishRound THEN <<entry>> ELSE <<>>)
                     ELSE IF Len(undone) < MaxUndone
                     THEN <<entry>> \o [i \in DOMAIN undone |->
                                          [undone[i] EXCEPT !.deep = entry.deep]]
                     ELSE <<>>
        /\ lastCall' = [kind     |-> "backwardTick",
                        pre      |-> accounts,
                        restored |-> <<snaps[applied]>>,
                        backRun  |-> IF scope.finishRound THEN 1
                                     ELSE IF undone # <<>> THEN Len(undone) + 1
                                     ELSE 0,
                        scope    |-> scope,
                        ops      |-> ops,
                        events   |-> backwardTickEvents(block),
                        sumRead  |-> scope.finishRound,
                        summed   |-> IF scope.finishRound
                                     THEN sumRound(scope.round, blocks)
                                     ELSE NullSums,
                        listRead |-> scope.finishRound,
                        result   |-> "resolved",
                        replayed |-> <<>>,
                        replayRun |-> 0]
  /\ UNCHANGED <<seed, calls, started, slates, transport>>

\* the node is started to verify the snapshot of a round: the loader
\* re-applies the persisted chain from the genesis block on a cleared
\* delegate table (rounds.ts:135-137)
verifySnapshot(round) ==
  /\ applied = Len(blocks)
  /\ applied >= lastInRound(round)
  /\ getSnapshotRounds(appState) = 0
  /\ applied' = 0
  /\ accounts' = InitAccounts
  /\ appState' = [appState EXCEPT !.snapshot = <<round>>]
  /\ snaps' = <<>>
  /\ undone' = <<>>
  /\ lastCall' = NoCall
  /\ UNCHANGED <<blocks, seed, calls, started, slates, transport>>

Next ==
  \/ \E gen \in Delegates, kind \in BlockKinds : saveBlock(gen, kind)
  \/ deleteBlock
  \/ tick
  \* no block is deleted while a snapshot is verified
  \/ (getSnapshotRounds(appState) = 0 /\ backwardTick)
  \/ \E round \in SnapshotRounds : verifySnapshot(round)

Spec == Init /\ [][Next]_vars

(***************************************************************************)
(* The engine call by call and await by await: callers may start a call    *)
(* while another one is suspended, and every awaited promise may reject.   *)
(***************************************************************************)
Errors == {"E1", "E2"}

\* the first round and the block after it, forged by the round's slates
AsyncChain ==
  [h \in 1..(ActiveDelegates + 1) |->
     IF h = 1 THEN GenesisBlock
     ELSE [id |-> h, height |-> h,
           generatorPublicKey |-> generateDelegateList(h, 0)[1],
           reward |-> h, totalFee |-> h + 1]]

\* the chains the calls are made on: the genesis block alone, and the first
\* round with the block after it
AsyncChains == {<<GenesisBlock>>, AsyncChain}

\* the heights calls are made for: the genesis block, the end of the first
\* round and the block after it, which ends no round
CallHeights == {1, ActiveDelegates, ActiveDelegates + 1}

InitAsync ==
  /\ blocks \in AsyncChains
  /\ applied = Len(blocks)
  /\ accounts = InitAccounts
  /\ appState = [isLoaded |-> FALSE, isTicking |-> FALSE, snapshot |-> <<>>]
  /\ seed = 0
  /\ lastCall = NoCall
  /\ snaps = <<>>
  /\ undone = <<>>
  /\ calls = [c \in Callers |-> IdleCall]
  /\ started = 0
  /\ slates = NoSlate
  /\ transport = NoTransport

InFlight(c) ==
  calls[c].pc \in {"sumRound", "generateDelegateList", "performOps", "busMessage"}

opsOf(kind, scope, state) ==
  IF kind = "tick" THEN tickOps(scope, state) ELSE backwardTickOps(scope)

\* what a call has done so far, in program order: the messages handed to the
\* bus, the write of rounds.isTicking, the store reads and performOps
MessageSteps(events) ==
  [i \in DOMAIN events |-> <<"message">> \o events[i]]

SetTickingStep == <<"set", "rounds.isTicking">>

ReadStep(what) == <<"read", what>>

PerformOpsStep == <<"performOps">>

\* variant: the messages of the caller are sent after the flag is set
enterInnerTickFlagFirst(kind, block, events, state) ==
  LET call == [pc |-> "sumRound", kind |-> kind, block |-> block,
               sums |-> NullSums, scope |-> <<>>, ops |-> <<>>,
               events |-> events, opsDone |-> FALSE,
               failedAt |-> "none", thrown |-> "none",
               result |-> <<"pending">>,
               steps |-> <<SetTickingStep>> \o MessageSteps(events)
                         \o <<ReadStep("sumRound")>>]
      scope == buildScope(block, kind = "backwardTick", NullSums, <<>>)
  IN IF finishRoundOf(block) THEN call
     ELSE [call EXCEPT !.pc = "performOps", !.scope = <<scope>>,
                       !.ops = opsOf(kind, scope, state),
                       !.steps = <<SetTickingStep>> \o MessageSteps(events)
                                 \o <<PerformOpsStep>>]

\* the messages the caller sent before it called innerTick, then innerTick
\* from its entry to its first await
enterInnerTick(kind, block, events, state) ==
  LET call == [pc |-> "sumRound", kind |-> kind, block |-> block,
               sums |-> NullSums, scope |-> <<>>, ops |-> <<>>,
               events |-> events, opsDone |-> FALSE,
               failedAt |-> "none", thrown |-> "none",
               result |-> <<"pending">>,
               steps |-> MessageSteps(events) \o <<SetTickingStep>>
                         \o <<ReadStep("sumRound")>>]
      scope == buildScope(block, kind = "backwardTick", NullSums, <<>>)
  IN IF finishRoundOf(block) THEN call
     ELSE [call EXCEPT !.pc = "performOps", !.scope = <<scope>>,
                       !.ops = opsOf(kind, scope, state),
                       !.steps = MessageSteps(events) \o <<SetTickingStep>>
                                 \o <<PerformOpsStep>>]

asyncFrame == UNCHANGED <<applied, seed, lastCall, snaps, undone, slates, transport>>

tickStart(c, h) ==
  /\ calls[c].pc = "idle"
  /\ h <= Len(blocks)
  /\ started < MaxCalls
  /\ appState' = setTicking(appState, TRUE)
  /\ calls' = [calls EXCEPT ![c] = enterInnerTick("tick", blocks[h], <<>>, appState)]
  /\ started' = started + 1
  /\ UNCHANGED <<blocks, accounts>>
  /\ asyncFrame

backwardTickStart(c, h) ==
  /\ calls[c].pc = "idle"
  /\ h <= Len(blocks)
  /\ started < MaxCalls
  /\ appState' = setTicking(appState, TRUE)
  /\ calls' = [calls EXCEPT ![c] =
                 enterInnerTick("backwardTick", blocks[h],
                                backwardTickEvents(blocks[h]), appState)]
  /\ started' = started + 1
  /\ UNCHANGED <<blocks, accounts>>
  /\ asyncFrame

\* an awaited promise of call c rejects with e: innerTick's catch block runs
rejectAt(c, where, e) ==
  LET r == innerTickCatch(appState,
             [calls[c] EXCEPT !.failedAt = where, !.thrown = e], e)
  IN /\ appState' = r.appState
     /\ calls' = [calls EXCEPT ![c] = r.call]
     /\ UNCHANGED <<blocks, accounts, started>>
     /\ asyncFrame

sumRoundResolve(c) ==
  /\ calls[c].pc = "sumRound"
  /\ calls' = [calls EXCEPT ![c] =
                 [@ EXCEPT !.pc = "generateDelegateList",
                           !.sums = roundSumsOf(calls[c].block, blocks),
                           !.steps = Append(@, ReadStep("generateDelegateList"))]]
  /\ UNCHANGED <<blocks, accounts, appState, started>>
  /\ asyncFrame

sumRoundReject(c, e) ==
  /\ calls[c].pc = "sumRound"
  /\ rejectAt(c, "sumRound", e)

generateDelegateListResolve(c) ==
  /\ calls[c].pc = "generateDelegateList"
  /\ LET call  == calls[c]
         outs  == getOutsiders(calcRound(call.block.height),
                               call.sums.roundDelegates, seed)
         scope == buildScope(call.block, call.kind = "backwardTick",
                             call.sums, outs)
     IN calls' = [calls EXCEPT ![c] =
                    [@ EXCEPT !.pc = "performOps", !.scope = <<scope>>,
                              !.ops = opsOf(call.kind, scope, appState),
                              !.steps = Append(@, PerformOpsStep)]]
  /\ UNCHANGED <<blocks, accounts, appState, started>>
  /\ asyncFrame

generateDelegateListReject(c, e) ==
  /\ calls[c].pc = "generateDelegateList"
  /\ rejectAt(c, "generateDelegateList", e)

performOpsResolve(c) ==
  /\ calls[c].pc = "performOps"
  /\ LET call  == calls[c]
         scope == call.scope[1]
         db    == performOps(call.ops, [accounts |-> accounts, blocks |-> blocks])
         done  == [call EXCEPT !.opsDone = TRUE]
         r     == innerTickEnd(appState, done)
     IN /\ accounts' = db.accounts
        /\ blocks' = db.blocks
        /\ IF call.kind = "tick" /\ tickEvents(scope) # <<>>
           THEN /\ calls' = [calls EXCEPT ![c] =
                               [done EXCEPT !.pc = "busMessage",
                                            !.events = @ \o tickEvents(scope),
                                            !.steps = @ \o MessageSteps(
                                                             tickEvents(scope))]]
                /\ UNCHANGED appState
           ELSE /\ calls' = [calls EXCEPT ![c] = r.call]
                /\ appState' = r.appState
  /\ UNCHANGED started
  /\ asyncFrame

performOpsReject(c, e) ==
  /\ calls[c].pc = "performOps"
  /\ rejectAt(c, "performOps", e)

busMessageResolve(c) ==
  /\ calls[c].pc = "busMessage"
  /\ LET r == innerTickEnd(appState, calls[c])
     IN /\ calls' = [calls EXCEPT ![c] = r.call]
        /\ appState' = r.appState
  /\ UNCHANGED <<blocks, accounts, started>>
  /\ asyncFrame

busMessageReject(c, e) ==
  /\ calls[c].pc = "busMessage"
  /\ rejectAt(c, "busMessage", e)

\* the caller has taken the outcome of its call
callSettled(c) ==
  /\ calls[c].pc = "returned"
  /\ calls' = [calls EXCEPT ![c] = IdleCall]
  /\ UNCHANGED <<blocks, accounts, appState, started>>
  /\ asyncFrame

\* RoundsModule.onBlockchainReady
onBlockchainReady ==
  /\ appState' = [appState EXCEPT !.isLoaded = TRUE]
  /\ UNCHANGED <<blocks, accounts, calls, started>>
  /\ asyncFrame

\* variant: cleanup clears rounds.isTicking as well
cleanupClearsTicking ==
  /\ appState' = [appState EXCEPT !.isLoaded = FALSE, !.isTicking = FALSE]
  /\ UNCHANGED <<blocks, accounts, calls, started>>
  /\ asyncFrame

\* RoundsModule.cleanup: the flag is cleared, the promise it returns resolves
cleanup ==
  /\ appState' = [appState EXCEPT !.isLoaded = FALSE]
  /\ UNCHANGED <<blocks, accounts, calls, started>>
  /\ asyncFrame

NextAsync ==
  \/ \E c \in Callers, h \in CallHeights : tickStart(c, h)
  \/ \E c \in Callers, h \in CallHeights : backwardTickStart(c, h)
  \/ \E c \in Callers : sumRoundResolve(c)
  \/ \E c \in Callers, e \in Errors : sumRoundReject(c, e)
  \/ \E c \in Callers : generateDelegateListResolve(c)
  \/ \E c \in Callers, e \in Errors : generateDelegateListReject(c, e)
  \/ \E c \in Callers : performOpsResolve(c)
  \/ \E c \in Callers, e \in Errors : performOpsReject(c, e)
  \/ \E c \in Callers : busMessageResolve(c)
  \/ \E c \in Callers, e \in Errors : busMessageReject(c, e)
  \/ \E c \in Callers : callSettled(c)
  \/ onBlockchainReady
  \/ cleanup

SpecAsync == InitAsync /\ [][NextAsync]_vars

(***************************************************************************)
(* The concurrent engine when no awaited promise stays pending for ever:   *)
(* each caller makes one call, for the end of the first round or for the   *)
(* block after it, on the chain that holds both, and each await resolves   *)
(* or rejects.                                                             *)
(***************************************************************************)
FairHeights == {ActiveDelegates, ActiveDelegates + 1}

FairErrors == {"E1"}

InitAsyncFair == InitAsync /\ blocks = AsyncChain

\* the promise call c is suspended at resolves or rejects
awaitSettles(c) ==
  \/ sumRoundResolve(c)
  \/ \E e \in FairErrors : sumRoundReject(c, e)
  \/ generateDelegateListResolve(c)
  \/ \E e \in FairErrors : generateDelegateListReject(c, e)
  \/ performOpsResolve(c)
  \/ \E e \in FairErrors : performOpsReject(c, e)
  \/ busMessageResolve(c)
  \/ \E e \in FairErrors : busMessageReject(c, e)

NextAsyncFair ==
  \/ \E c \in Callers, h \in FairHeights : tickStart(c, h)
  \/ \E c \in Callers, h \in FairHeights : backwardTickStart(c, h)
  \/ \E c \in Callers : awaitSettles(c)

SpecAsyncFair ==
  /\ InitAsyncFair
  /\ [][NextAsyncFair]_vars
  /\ \A c \in Callers : WF_vars(awaitSettles(c))

(***************************************************************************)
(* Properties of the serialized engine.                                    *)
(***************************************************************************)
SumBalance(table) ==
  LET RECURSIVE Sum(_)
      Sum(S) == IF S = {} THEN 0
                ELSE LET a == CHOOSE x \in S : TRUE
                     IN table[a].balance + Sum(S \ {a})
  IN Sum(DOMAIN table)

RoundEndTick == lastCall.kind = "tick" /\ lastCall.scope.finishRound

\* heights of the round of the last call that are persisted and not above
\* the block of the call
ForgedHeights ==
  firstInRound(lastCall.scope.round) .. lastCall.scope.block.height

\* C1: at every round-end tick the balance credited to the delegate table,
\* and the balance deltas of the op batch, add up to roundFees plus the sum
\* of roundRewards.
C1_Conservation ==
  RoundEndTick =>
    /\ SumBalance(accounts) - SumBalance(lastCall.pre)
         = lastCall.scope.roundFees + SumSeq(lastCall.scope.roundRewards)
    /\ SumSeq([i \in DOMAIN lastCall.ops |->
                 IF lastCall.ops[i].type = "merge"
                 THEN lastCall.ops[i].balance ELSE 0])
         = lastCall.scope.roundFees + SumSeq(lastCall.scope.roundRewards)

\* a round end with a remainder, settled on a list in which one delegate
\* forged several blocks
C1_Witness ==
  /\ RoundEndTick
  /\ lastCall.scope.roundFees % ActiveDelegates # 0
  /\ Len(lastCall.scope.roundDelegates) = ActiveDelegates
  /\ Cardinality(Range(lastCall.scope.roundDelegates)) < ActiveDelegates

\* the one-entry genesis list
C1_WitnessGenesis ==
  RoundEndTick /\ Len(lastCall.scope.roundDelegates) = 1

C3_Witness ==
  /\ RoundEndTick
  /\ lastCall.replayed # <<>>
  /\ lastCall.replayRun = 1
  /\ lastCall.scope.roundFees > 0

C4_RoundGain ==
  (RoundEndTick /\ lastCall.scope.block.height = lastInRound(lastCall.scope.round)) =>
    LET round  == lastCall.scope.round
        first  == firstInRound(round)
        last   == lastInRound(round)
        fees   == SumSeq([i \in 1..ActiveDelegates |-> blocks[first + i - 1].totalFee])
        per    == fees \div ActiveDelegates
        rem    == fees - per * ActiveDelegates
        gain(a) == SumSeq([i \in 1..ActiveDelegates |->
                     IF generateAddressByPublicKey(
                          blocks[first + i - 1].generatorPublicKey) = a
                     THEN blocks[first + i - 1].reward + per ELSE 0])
                   + (IF generateAddressByPublicKey(
                           blocks[last].generatorPublicKey) = a
                      THEN rem ELSE 0)
    IN \A a \in Addresses :
         accounts[a].balance - snaps[first][a].balance = gain(a)

\* the generator of the last block forged two blocks of the round and the
\* fees leave a remainder
C4_Witness ==
  /\ RoundEndTick
  /\ lastCall.scope.block.height = lastInRound(lastCall.scope.round)
  /\ lastCall.scope.block.height > ActiveDelegates
  /\ lastCall.scope.roundFees % ActiveDelegates # 0
  /\ Cardinality({h \in ForgedHeights :
        blocks[h].generatorPublicKey = lastCall.scope.block.generatorPublicKey}) > 1

\* C5: a tick that does not end a round changes the producedblocks of the
\* generator and nothing else, builds no apply op and reads neither the
\* round sums nor the slate.
C5_NotRoundEndFrame ==
  (lastCall.kind = "tick" /\ ~lastCall.scope.finishRound) =>
    LET gen == generateAddressByPublicKey(lastCall.scope.block.generatorPublicKey)
    IN /\ \A a \in Addresses :
            accounts[a] = IF a = gen
                          THEN [lastCall.pre[a] EXCEPT !.producedblocks = @ + 1]
                          ELSE lastCall.pre[a]
       /\ Len(lastCall.ops) = 2
       /\ lastCall.ops[1].type = "merge" /\ lastCall.ops[1].balance = 0
       /\ lastCall.ops[1].missedblocks = 0
       /\ lastCall.ops[2].type = "markBlockId"
       /\ ~lastCall.sumRead
       /\ ~lastCall.listRead

\* a tick inside a round whose earlier blocks carry fees and rewards
C5_Witness ==
  /\ lastCall.kind = "tick"
  /\ ~lastCall.scope.finishRound
  /\ lastCall.scope.block.totalFee > 0
  /\ accounts # lastCall.pre

\* C8: a tick changes the producedblocks of the generator by +1 and of no
\* other account; the backward tick of the block changes it by -1.
C8_ProducedBlocks ==
  lastCall.kind \in {"tick", "backwardTick"} =>
    LET gen  == generateAddressByPublicKey(lastCall.scope.block.generatorPublicKey)
        step == IF lastCall.kind = "tick" THEN 1 ELSE 0 - 1
    IN \A a \in Addresses :
         accounts[a].producedblocks - lastCall.pre[a].producedblocks
           = IF a = gen THEN step ELSE 0

\* a round-end block undone whose generator is not the only forger of the round
C8_Witness ==
  /\ lastCall.kind = "backwardTick"
  /\ lastCall.scope.finishRound
  /\ Cardinality(Range(lastCall.scope.roundDelegates)) > 1

\* C9: at a round-end tick the outsiders are the slate of the last height of
\* the round, in slate order, less the generators of the blocks of the round
\* forged so far; each gains one missedblocks and nobody else any.
C9_Outsiders ==
  RoundEndTick =>
    LET slate    == generateDelegateList(lastInRound(lastCall.scope.round), seed)
        forgers  == {blocks[h].generatorPublicKey : h \in ForgedHeights}
        absent   == SelectSeq(slate, LAMBDA pk : pk \notin forgers)
        expected == [i \in 1..Len(absent) |-> generateAddressByPublicKey(absent[i])]
    IN /\ lastCall.scope.roundOutsiders = expected
       /\ \A a \in Addresses :
            accounts[a].missedblocks - lastCall.pre[a].missedblocks
              = IF a \in Range(expected) THEN 1 ELSE 0
       /\ \A pk \in forgers :
            accounts[generateAddressByPublicKey(pk)].missedblocks
              = lastCall.pre[generateAddressByPublicKey(pk)].missedblocks

\* a round end past the genesis block where part of the slate forged and the
\* rest of it did not
C9_Witness ==
  /\ RoundEndTick
  /\ lastCall.scope.block.height > 1
  /\ lastCall.scope.roundOutsiders # <<>>
  /\ Len(lastCall.scope.roundOutsiders) < ActiveDelegates
  /\ \E a \in Range(lastCall.scope.roundOutsiders) :
       accounts[a].missedblocks = lastCall.pre[a].missedblocks + 1

\* the genesis tick of a chain re-applied with the whole first round persisted
C9_WitnessGenesis ==
  /\ RoundEndTick
  /\ lastCall.scope.block.height = 1
  /\ Len(lastCall.summed.roundDelegates) > 1
  /\ lastCall.scope.roundOutsiders # <<>>

(***************************************************************************)
(* Properties of the engine with concurrent callers and failing awaits.    *)
(***************************************************************************)
Ticking == {c \in Callers : InFlight(c)}

C6_TrueOnlyWhileTicking == appState.isTicking => Ticking # {}

C6_FalseAtEveryExit ==
  \A c \in Callers :
    (calls[c].pc # "returned" /\ calls'[c].pc = "returned")
      => ~appState'.isTicking

\* C6: rounds.isTicking is true only while some tick or backwardTick call is
\* executing, and whenever a call returns, resolved or rejected, the flag is
\* false.
C6_IsTicking == []C6_TrueOnlyWhileTicking /\ [][C6_FalseAtEveryExit]_vars

\* a call that was rejected by the finishRound emit has returned
C6_Witness ==
  \E c \in Callers :
    /\ calls[c].pc = "returned"
    /\ calls[c].failedAt = "busMessage"
    /\ ~appState.isTicking

\* C7: at most one call is in the Ticking state at any time.
C7_AtMostOneTicking == Cardinality(Ticking) <= 1

\* C10: a call in which sum_round, the slate lookup or performOps failed is
\* rejected with the error that was thrown, has emitted no finishRound, and
\* has executed no op when the failure came before performOps.
C10_ErrorsPropagate ==
  \A c \in Callers :
    (calls[c].pc = "returned"
       /\ calls[c].failedAt \in {"sumRound", "generateDelegateList", "performOps"})
    => /\ calls[c].result = <<"rejected", calls[c].thrown>>
       /\ \A i \in DOMAIN calls[c].events : calls[c].events[i][1] # "finishRound"
       /\ ~calls[c].opsDone
       /\ calls[c].failedAt # "performOps" => calls[c].ops = <<>>

\* a round-end tick rejected by performOps while the other caller's call
\* was rejected by the slate lookup with another error
C10_Witness ==
  \E c, d \in Callers :
    /\ calls[c].pc = "returned" /\ calls[d].pc = "returned"
    /\ calls[c].failedAt = "performOps" /\ calls[c].kind = "tick"
    /\ calls[c].scope[1].finishRound
    /\ calls[d].failedAt = "generateDelegateList"
    /\ calls[c].thrown # calls[d].thrown


(***************************************************************************)
(* Shape and order of the op batch of one call.                            *)
(***************************************************************************)
\* an op of mergeBlockGenerator: it moves the producedblocks counter
IsGeneratorOp(op) == op.type = "merge" /\ op.producedblocks # 0

\* an op of apply() or undo(): a merge that leaves producedblocks alone
IsRoundOp(op) == op.type = "merge" /\ op.producedblocks = 0

OpsOfType(ops, type) == {i \in DOMAIN ops : ops[i].type = type}

\* C11 as stated: in the batch of a tick, truncateBlocks comes after
\* markBlockId.
C11_TruncateAfterMark ==
  lastCall.kind = "tick" =>
    \A i \in OpsOfType(lastCall.ops, "truncateBlocks"),
       j \in OpsOfType(lastCall.ops, "markBlockId") : j < i

\* C11 (amended): the batch of a tick is the mergeBlockGenerator op, then the
\* apply ops, then truncateBlocks when it is emitted, and markBlockId last.
C11_TickOrder ==
  lastCall.kind = "tick" =>
    LET ops   == lastCall.ops
        n     == Len(ops)
        round == {i \in DOMAIN ops : IsRoundOp(ops[i])}
        trunc == OpsOfType(ops, "truncateBlocks")
    IN /\ {i \in DOMAIN ops : IsGeneratorOp(ops[i])} = {1}
       /\ round = 2..(1 + Len(apply(lastCall.scope)))
       /\ SubSeq(ops, 2, 1 + Cardinality(round)) = apply(lastCall.scope)
       /\ OpsOfType(ops, "markBlockId") = {n}
       /\ trunc \subseteq {n - 1}
       /\ \A i \in trunc, j \in round : j < i
       /\ Cardinality(round) + Cardinality(trunc) + 2 = n

\* the round-end tick of the snapshot round: apply ops and truncateBlocks
C11_Witness ==
  /\ lastCall.kind = "tick"
  /\ OpsOfType(lastCall.ops, "truncateBlocks") # {}
  /\ Len(apply(lastCall.scope)) > ActiveDelegates

\* C12: in the batch of a tick and of a backward tick every
\* mergeBlockGenerator op precedes every apply / undo op, and the table the
\* call leaves is the batch performed once, op by op in the order built.
C12_GeneratorFirstOneBatch ==
  lastCall.kind \in {"tick", "backwardTick"} =>
    LET ops == lastCall.ops
    IN /\ \A i, j \in DOMAIN ops :
            (IsGeneratorOp(ops[i]) /\ IsRoundOp(ops[j])) => i < j
       /\ \E i \in DOMAIN ops : IsGeneratorOp(ops[i])
       /\ accounts = performOps(ops, [accounts |-> lastCall.pre,
                                      blocks |-> blocks]).accounts
       /\ blocks = performOps(ops, [accounts |-> lastCall.pre,
                                    blocks |-> blocks]).blocks

\* the backward tick of a round end with undo ops in its batch
C12_Witness ==
  /\ lastCall.kind = "backwardTick"
  /\ lastCall.scope.finishRound
  /\ \E j \in DOMAIN lastCall.ops : IsRoundOp(lastCall.ops[j])
  /\ accounts # lastCall.pre

\* C15: the undo ops of a round-end backward tick are the apply ops of the
\* same context, each negated, in reverse order: first the outsiders'
\* missedblocks decrements, then the balance decrements from the last index
\* of roundDelegates down to the first, the remainder with the last forger.
C15_UndoMirrorsApply ==
  (lastCall.kind = "backwardTick" /\ lastCall.scope.finishRound) =>
    LET scope == lastCall.scope
        mid   == SubSeq(lastCall.ops, 2, Len(lastCall.ops) - 1)
        fwd   == apply(scope)
        k     == Len(scope.roundOutsiders)
        n     == Len(scope.roundDelegates)
        per   == scope.roundFees \div ActiveDelegates
        rem   == scope.roundFees - per * ActiveDelegates
    IN /\ Len(mid) = Len(fwd)
       /\ Len(mid) = n + k
       /\ \A i \in 1..Len(mid) :
            LET a == fwd[Len(fwd) + 1 - i]
            IN /\ mid[i].type = "merge"
               /\ mid[i].address = a.address
               /\ mid[i].balance + a.balance = 0
               /\ mid[i].u_balance + a.u_balance = 0
               /\ mid[i].producedblocks + a.producedblocks = 0
               /\ mid[i].missedblocks + a.missedblocks = 0
       /\ \A j \in 1..k :
            /\ mid[j].address = scope.roundOutsiders[k + 1 - j]
            /\ mid[j].missedblocks = 0 - 1
            /\ mid[j].balance = 0
       /\ \A i \in 1..n :
            /\ mid[k + i].address
                 = generateAddressByPublicKey(scope.roundDelegates[n + 1 - i])
            /\ mid[k + i].balance
                 = 0 - (per + scope.roundRewards[n + 1 - i]
                            + (IF i = 1 THEN rem ELSE 0))
            /\ mid[k + i].u_balance = mid[k + i].balance
            /\ mid[k + i].missedblocks = 0

\* a round end undone with an outsider, several forgers and a fee remainder
C15_Witness ==
  /\ lastCall.kind = "backwardTick"
  /\ lastCall.scope.finishRound
  /\ lastCall.scope.roundOutsiders # <<>>
  /\ Len(lastCall.scope.roundDelegates) = ActiveDelegates
  /\ lastCall.scope.roundFees % ActiveDelegates # 0
  /\ lastCall.scope.roundRewards[1] # lastCall.scope.roundRewards[ActiveDelegates]

\* C20 as stated: the mergeBlockGenerator op of a tick carries +1
\* producedblocks and the block's reward and fee on balance and u_balance.
C20_GeneratorCredited ==
  lastCall.kind = "tick" =>
    LET op    == lastCall.ops[1]
        block == lastCall.scope.block
    IN /\ op.address = generateAddressByPublicKey(block.generatorPublicKey)
       /\ op.producedblocks = 1
       /\ op.balance = block.reward + block.totalFee
       /\ op.u_balance = block.reward + block.totalFee
       /\ op.round = lastCall.scope.round

\* C20 (amended): the mergeBlockGenerator op of a tick carries +1
\* producedblocks for the block's generator and the round id, and no balance;
\* balance and u_balance change by the apply ops of a round end only.
C20_GeneratorOp ==
  lastCall.kind = "tick" =>
    LET op    == lastCall.ops[1]
        block == lastCall.scope.block
        fwd   == apply(lastCall.scope)
        credit(a) == SumSeq([i \in DOMAIN fwd |->
                       IF fwd[i].address = a THEN fwd[i].balance ELSE 0])
    IN /\ op.address = generateAddressByPublicKey(block.generatorPublicKey)
       /\ op.producedblocks = 1
       /\ op.balance = 0 /\ op.u_balance = 0
       /\ op.round = lastCall.scope.round
       /\ \A a \in Addresses :
            /\ accounts[a].balance - lastCall.pre[a].balance = credit(a)
            /\ accounts[a].u_balance - lastCall.pre[a].u_balance = credit(a)

\* the tick of a block inside a round that carries a reward and fees
C20_Witness ==
  /\ lastCall.kind = "tick"
  /\ ~lastCall.scope.finishRound
  /\ lastCall.scope.block.reward > 1
  /\ lastCall.scope.block.totalFee > 0
  /\ accounts[generateAddressByPublicKey(
        lastCall.scope.block.generatorPublicKey)].producedblocks > 0


(***************************************************************************)
(* The messages of a call on the bus.                                      *)
(***************************************************************************)
FinishRoundEvents(events) ==
  {i \in DOMAIN events : events[i][1] = "finishRound"}

\* C13: a tick has sent finishRound(round) once if its block ends a round
\* and its performOps has completed with the whole batch, and not at all
\* otherwise; a backward tick sends none.
C13_FinishRoundOnce ==
  \A c \in Callers :
    calls[c].pc # "idle" =>
      LET call == calls[c]
          sent == FinishRoundEvents(call.events)
      IN /\ Cardinality(sent)
              = IF call.kind = "tick" /\ finishRoundOf(call.block) /\ call.opsDone
                THEN 1 ELSE 0
         /\ \A i \in sent :
              /\ call.events[i] = <<"finishRound", calcRound(call.block.height)>>
              /\ call.ops = tickOps(call.scope[1], appState)
              /\ call.ops[Len(call.ops)].type = "markBlockId"

\* a round-end tick that resolved after its finishRound message while the
\* other caller's tick of a block inside a round returned with none sent
C13_Witness ==
  \E c, d \in Callers :
    /\ calls[c].pc = "returned" /\ calls[c].kind = "tick"
    /\ calls[c].result = <<"resolved">>
    /\ FinishRoundEvents(calls[c].events) # {}
    /\ calls[d].pc = "returned" /\ calls[d].kind = "tick"
    /\ calls[d].opsDone
    /\ FinishRoundEvents(calls[d].events) = {}

\* C14: a call whose ops were performed is not rejected: the consumers of
\* its messages cannot make it fail.
C14_ConsumerCannotReject ==
  \A c \in Callers :
    (calls[c].pc = "returned" /\ calls[c].opsDone)
      => calls[c].result = <<"resolved">>


(***************************************************************************)
(* DelegateSlate: the two selection algorithms of spec.md 4.4, which the   *)
(* delegates module chooses between by the height it is asked for.         *)
(***************************************************************************)
\* values of votesWeight in the delegate table
Weights == {0, 1, 2}

\* values of constants.dposv2.firstBlock: the first height of the second
\* round (as the integration test sets it) and the height after it
FirstBlocks == {firstInRound(2), firstInRound(2) + 1}

\* the heights a list is asked for: those of the second round
SlateHeights == firstInRound(2)..lastInRound(2)

\* the delegate rows the selection reads
delegateRows(table, banned) ==
  {[publicKey   |-> pk,
    vote        |-> table[generateAddressByPublicKey(pk)].vote,
    votesWeight |-> table[generateAddressByPublicKey(pk)].votesWeight,
    banned      |-> pk \in banned] : pk \in Delegates}

\* ORDER BY vote DESC, publicKey ASC
RECURSIVE sortByVote(_)
sortByVote(rows) ==
  IF rows = {} THEN <<>>
  ELSE LET first == CHOOSE r \in rows : \A o \in rows \ {r} :
                      \/ r.vote > o.vote
                      \/ (r.vote = o.vote /\ r.publicKey < o.publicKey)
       IN <<first>> \o sortByVote(rows \ {first})

\* ORDER BY publicKey ASC
RECURSIVE sortByPublicKey(_)
sortByPublicKey(rows) ==
  IF rows = {} THEN <<>>
  ELSE LET first == CHOOSE r \in rows : \A o \in rows \ {r} :
                      r.publicKey < o.publicKey
       IN <<first>> \o sortByPublicKey(rows \ {first})

\* the hash of the round number that drives the v1 shuffle, byte by byte
roundHash(round, i) == ((round * 31 + i) * 17 + 7) % 13

swap(list, i, j) == [list EXCEPT ![i] = list[j], ![j] = list[i]]

\* Fisher-Yates over the list, the partner of each position taken from the hash
RECURSIVE shuffle(_, _, _)
shuffle(list, round, i) ==
  IF i > Len(list) THEN list
  ELSE shuffle(swap(list, i, 1 + (roundHash(round, i) % Len(list))), round, i + 1)

\* v1: the N delegates with the most vote, shuffled by the round number
generateDelegateListV1(round, rows) ==
  LET sorted == sortByVote({r \in rows : r.vote > 0})
      top    == SubSeq(sorted, 1, IF Len(sorted) < ActiveDelegates
                                  THEN Len(sorted) ELSE ActiveDelegates)
      keys   == [i \in DOMAIN top |-> top[i].publicKey]
  IN shuffle(keys, round, 1)

\* the stream of the generator seeded by S: a hash chain
RECURSIVE prng(_, _)
prng(S, k) == IF k = 0 THEN (S * 5 + 3) % 16 ELSE (prng(S, k - 1) * 5 + 3) % 16

totalWeight(pool) == SumSeq([i \in DOMAIN pool |-> pool[i].votesWeight])

\* the delegate whose cumulative weight bracket contains the value
v2Pick(pool, value) ==
  CHOOSE i \in DOMAIN pool :
    /\ totalWeight(SubSeq(pool, 1, i - 1)) <= value
    /\ value < totalWeight(SubSeq(pool, 1, i))

\* variant: the delegate drawn stays in the pool
v2StepKeep(pool, picked, value) ==
  LET i == v2Pick(pool, value)
  IN [pool |-> pool, picked |-> Append(picked, pool[i].publicKey)]

\* one draw: the delegate is appended to the slate and leaves the pool
v2Step(pool, picked, value) ==
  LET i == v2Pick(pool, value)
  IN [pool   |-> SubSeq(pool, 1, i - 1) \o SubSeq(pool, i + 1, Len(pool)),
      picked |-> Append(picked, pool[i].publicKey)]

\* the delegates v2 selects among
v2Pool(rows) == sortByPublicKey({r \in rows : ~r.banned /\ r.votesWeight > 0})

RECURSIVE v2Select(_, _, _, _)
v2Select(pool, picked, S, k) ==
  IF Len(picked) = ActiveDelegates \/ pool = <<>> THEN picked
  ELSE LET next == v2Step(pool, picked, prng(S, k) % totalWeight(pool))
       IN v2Select(next.pool, next.picked, S, k + 1)

\* v2: N weighted draws without replacement
generateDelegateListV2(S, rows) == v2Select(v2Pool(rows), <<>>, S, 0)

\* the algorithm is chosen by the height the list is asked for
generateDelegateListOfHeight(height, firstBlock, S, rows) ==
  IF height >= firstBlock
  THEN generateDelegateListV2(S, rows)
  ELSE generateDelegateListV1(calcRound(height), rows)


(***************************************************************************)
(* The delegates module at work: either one v2 selection draw by draw,     *)
(* over every stream a generator can produce, or the lists of the heights  *)
(* of the second round, asked for while the blocks of the chain are        *)
(* ticked.                                                                 *)
(***************************************************************************)
\* two rounds of blocks, forged by the first delegate of each round's slate
SlateChain(sd) ==
  [h \in 1..lastInRound(2) |->
     IF h = 1 THEN GenesisBlock
     ELSE [id |-> h, height |-> h,
           generatorPublicKey |-> generateDelegateList(h, sd)[1],
           reward |-> 1, totalFee |-> h]]

\* the values one draw can take
DrawValues ==
  0..(NumDelegates * (CHOOSE w \in Weights : \A v \in Weights : v <= w) - 1)

InitSlate ==
  /\ seed \in Seeds
  /\ blocks = SlateChain(seed)
  /\ applied = 0
  /\ appState = [isLoaded |-> FALSE, isTicking |-> FALSE, snapshot |-> <<>>]
  /\ lastCall = NoCall
  /\ snaps = <<>>
  /\ undone = <<>>
  /\ calls = [c \in Callers |-> IdleCall]
  /\ started = 0
  /\ \E weight \in [Delegates -> Weights],
        banned \in {B \in SUBSET Delegates : Cardinality(B) <= 1},
        firstBlock \in FirstBlocks,
        pc \in {"drawing", "round"} :
       LET table == [a \in Addresses |->
                       IF \E pk \in Delegates : generateAddressByPublicKey(pk) = a
                       THEN [InitAccounts[a] EXCEPT !.votesWeight =
                               weight[CHOOSE pk \in Delegates :
                                        generateAddressByPublicKey(pk) = a]]
                       ELSE InitAccounts[a]]
       IN /\ accounts = table
          /\ slates = [pc |-> pc, banned |-> banned, firstBlock |-> firstBlock,
                       pool |-> v2Pool(delegateRows(table, banned)),
                       picked |-> <<>>,
                       lists |-> [h \in {} |-> <<>>]]
          /\ transport = NoTransport

\* one draw of a v2 selection
v2Draw(value) ==
  /\ slates.pc = "drawing"
  /\ Len(slates.picked) < ActiveDelegates
  /\ slates.pool # <<>>
  /\ value < totalWeight(slates.pool)
  /\ LET next == v2Step(slates.pool, slates.picked, value)
     IN slates' = [slates EXCEPT !.pool = next.pool, !.picked = next.picked]
  /\ UNCHANGED <<blocks, applied, accounts, appState, seed, lastCall, snaps,
                 undone, calls, started, transport>>

\* the list of a height of the second round is asked for before its tick
generateDelegateListCall(height) ==
  /\ slates.pc = "round"
  /\ height \notin DOMAIN slates.lists
  /\ firstInRound(calcRound(height)) - 1 <= applied
  /\ applied < height
  /\ LET list == generateDelegateListOfHeight(height, slates.firstBlock, seed,
                   delegateRows(accounts, slates.banned))
     IN slates' = [slates EXCEPT !.lists =
                     [h \in DOMAIN slates.lists \cup {height} |->
                        IF h = height THEN list ELSE slates.lists[h]]]
  /\ UNCHANGED <<blocks, applied, accounts, appState, seed, lastCall, snaps,
                 undone, calls, started, transport>>

\* the next block of the chain is ticked
slateTick ==
  /\ slates.pc = "round"
  /\ tick

NextSlate ==
  \/ \E value \in DrawValues : v2Draw(value)
  \/ \E height \in SlateHeights : generateDelegateListCall(height)
  \/ slateTick

SpecSlate == InitSlate /\ [][NextSlate]_vars

(***************************************************************************)
(* Properties of the delegate slate.                                       *)
(***************************************************************************)
\* the delegates v2 may select: not banned, votesWeight above 0
Eligible ==
  {pk \in Delegates :
     /\ pk \notin slates.banned
     /\ accounts[generateAddressByPublicKey(pk)].votesWeight > 0}

\* C17: with N eligible delegates in the table, the lists produced for two
\* heights of the same round are the same list, whatever the ticks between
\* the two calls changed and wherever dposv2.firstBlock lies.
C17_SameSlateInRound ==
  (slates.pc = "round" /\ Cardinality(Eligible) >= ActiveDelegates) =>
    \A h1, h2 \in DOMAIN slates.lists :
      calcRound(h1) = calcRound(h2) => slates.lists[h1] = slates.lists[h2]

\* C19: with at least N eligible delegates, whatever the draws, the keys
\* selected are pairwise distinct keys of eligible delegates, the selection
\* goes on until there are N of them and stops there.
C19_V2Slate ==
  (slates.pc = "drawing" /\ Cardinality(Eligible) >= ActiveDelegates) =>
    LET picked == slates.picked
    IN /\ \A i, j \in DOMAIN picked : i # j => picked[i] # picked[j]
       /\ \A i \in DOMAIN picked : picked[i] \in Eligible
       /\ Len(picked) <= ActiveDelegates
       /\ Len(picked) < ActiveDelegates =>
            (slates.pool # <<>> /\ totalWeight(slates.pool) > 0)
       /\ Range(picked) \cap {slates.pool[i].publicKey : i \in DOMAIN slates.pool} = {}

\* a complete slate drawn against the key order, with a delegate left out
\* for its weight or its ban
C19_Witness ==
  /\ slates.pc = "drawing"
  /\ Len(slates.picked) = ActiveDelegates
  /\ slates.picked[1] > slates.picked[ActiveDelegates]
  /\ Cardinality(Eligible) < NumDelegates

(***************************************************************************)
(* The round sums innerTick hands to the RoundLogic.                       *)
(***************************************************************************)
\* the sums rounds.ts:138 puts in the place of the result of sumRound
GenesisSums(block) ==
  [roundFees |-> 0, roundRewards |-> <<0>>,
   roundDelegates |-> <<block.generatorPublicKey>>]

\* the calls whose await of sumRound is behind them
SumRoundDone ==
  {c \in Callers : /\ calls[c].pc \notin {"idle", "sumRound"}
                   /\ calls[c].failedAt # "sumRound"}

\* C21: in a tick or backward tick of height 1 the round sums used are fees
\* 0, rewards [0] and the generator of the block alone when sumRound has
\* returned a delegates list of a length other than 1, and the result of
\* sumRound when the length is 1; at any other height the result of sumRound
\* is used as it is.
C21_GenesisCorrection ==
  \A c \in SumRoundDone :
    LET call  == calls[c]
        block == call.block
        res   == sumRound(calcRound(block.height), blocks)
        used  == IF block.height = 1 /\ Len(res.roundDelegates) # 1
                 THEN GenesisSums(block) ELSE res
    IN IF finishRoundOf(block)
       THEN /\ call.sums = used
            /\ call.scope # <<>> =>
                  /\ call.scope[1].roundFees = used.roundFees
                  /\ call.scope[1].roundRewards = used.roundRewards
                  /\ call.scope[1].roundDelegates = used.roundDelegates
       ELSE call.sums = NullSums

\* a backward tick of the genesis block on a chain that holds the whole
\* first round, beside a tick of the last block of the round
C21_Witness ==
  \E c, d \in Callers :
    /\ calls[c].pc = "returned" /\ calls[c].kind = "backwardTick"
    /\ calls[c].block.height = 1 /\ calls[c].opsDone
    /\ Len(sumRound(1, blocks).roundDelegates) = ActiveDelegates
    /\ sumRound(1, blocks).roundFees > 0
    /\ calls[c].scope[1].roundFees = 0
    /\ calls[c].scope[1].roundDelegates = <<GenesisKey>>
    /\ calls[d].pc = "returned" /\ calls[d].kind = "tick"
    /\ calls[d].block.height = ActiveDelegates /\ calls[d].opsDone
    /\ calls[d].scope[1].roundFees = sumRound(1, blocks).roundFees

\* the tick of the genesis block while it is the only block persisted
C21_WitnessGenesisAlone ==
  \E c \in Callers :
    /\ calls[c].pc = "returned" /\ calls[c].kind = "tick"
    /\ calls[c].block.height = 1 /\ calls[c].opsDone
    /\ Len(blocks) = 1
    /\ calls[c].scope[1].roundDelegates = sumRound(1, blocks).roundDelegates
    /\ calls[c].scope[1].roundRewards = sumRound(1, blocks).roundRewards

(***************************************************************************)
(* The round ends among the heights of a chain.                            *)
(***************************************************************************)
\* the rounds whose last block has been ticked
SettledRounds == {r \in 1..calcRound(MaxHeight) : lastInRound(r) <= applied}

\* C22: finishRound is true exactly at height 1 and at the last height of
\* each round (the multiples of N); among the N heights of a round r >= 2
\* exactly one is a round end, and of round 1 two are (1 and N) when N > 1.
C22_RoundEnds ==
  /\ lastCall.kind \in {"tick", "backwardTick"} =>
       LET h == lastCall.scope.block.height
       IN /\ lastCall.scope.finishRound
               <=> (h = 1 \/ h = lastInRound(calcRound(h)))
          /\ (h = lastInRound(calcRound(h))) <=> (h % ActiveDelegates = 0)
          /\ lastCall.sumRead <=> (h = 1 \/ h % ActiveDelegates = 0)
  /\ \A r \in SettledRounds :
       LET ends == {h \in firstInRound(r)..lastInRound(r) :
                      finishRoundOf(blocks[h])}
       IN /\ Cardinality(firstInRound(r)..lastInRound(r)) = ActiveDelegates
          /\ lastInRound(r) \in ends
          /\ Cardinality(ends) = IF r = 1 /\ ActiveDelegates > 1 THEN 2 ELSE 1
          /\ r = 1 => 1 \in ends

\* the tick that ends the second round, after the two round ends of round 1
C22_Witness ==
  /\ RoundEndTick
  /\ lastCall.scope.round = 2
  /\ lastCall.scope.block.height = lastInRound(2)
  /\ SettledRounds = {1, 2}

(***************************************************************************)
(* The engine started with rounds.snapshot unset or set by the snapshot    *)
(* command, ticking and undoing the blocks of a persisted chain.           *)
(***************************************************************************)
\* values of the flag rounds.snapshot: unset, 0, and a round of the chain
SnapshotFlags == {<<>>, <<0>>, <<1>>, <<2>>}

\* two rounds and the block after them
SnapshotChain(sd) ==
  [h \in 1..(lastInRound(2) + 1) |->
     IF h = 1 THEN GenesisBlock
     ELSE [id |-> h, height |-> h,
           generatorPublicKey |-> generateDelegateList(h, sd)[1],
           reward |-> 1, totalFee |-> h]]

InitSnapshot ==
  /\ seed \in Seeds
  /\ blocks = SnapshotChain(seed)
  /\ applied = 0
  /\ accounts = InitAccounts
  /\ \E flag \in SnapshotFlags :
       appState = [isLoaded |-> FALSE, isTicking |-> FALSE, snapshot |-> flag]
  /\ lastCall = NoCall
  /\ snaps = <<>>
  /\ undone = <<>>
  /\ calls = [c \in Callers |-> IdleCall]
  /\ started = 0
  /\ slates = NoSlate
  /\ transport = NoTransport

NextSnapshot ==
  \/ tick
  \/ backwardTick
  \/ deleteBlock

SpecSnapshot == InitSnapshot /\ [][NextSnapshot]_vars

\* C23: the batch of a tick holds truncateBlocks if and only if the block
\* ends a round and rounds.snapshot is set, greater than 0 and equal to the
\* round of the block; the batch of a backward tick never holds it.
C23_TruncateIff ==
  LET trunc == OpsOfType(lastCall.ops, "truncateBlocks")
  IN /\ lastCall.kind = "tick" =>
          /\ trunc # {} <=> /\ lastCall.scope.finishRound
                             /\ appState.snapshot # <<>>
                             /\ appState.snapshot[1] > 0
                             /\ appState.snapshot[1] = lastCall.scope.round
          /\ Cardinality(trunc) <= 1
          /\ \A i \in trunc :
               lastCall.ops[i].height = lastInRound(lastCall.scope.round)
     /\ lastCall.kind = "backwardTick" => trunc = {}

\* the last block of the snapshot round undone, after its tick had dropped
\* the block above the round
C23_Witness ==
  /\ lastCall.kind = "backwardTick"
  /\ lastCall.scope.finishRound
  /\ lastCall.scope.block.height > 1
  /\ appState.snapshot = <<lastCall.scope.round>>
  /\ Len(blocks) < Len(SnapshotChain(seed))

\* a round-end tick under the flag 0, with no block dropped
C23_WitnessZero ==
  /\ RoundEndTick
  /\ lastCall.scope.block.height > 1
  /\ appState.snapshot = <<0>>
  /\ blocks = SnapshotChain(seed)

(***************************************************************************)
(* The message of a backward tick.                                         *)
(***************************************************************************)
\* C24: a backward tick hands roundBackwardTick(block) to the bus exactly
\* once, before it sets rounds.isTicking, before any store read and before
\* performOps, also when the call fails afterwards; it never sends
\* finishRound, even for a block that ends a round.
C24_BackwardTickMessage ==
  \A c \in Callers :
    (calls[c].pc # "idle" /\ calls[c].kind = "backwardTick") =>
      LET call == calls[c]
          s    == call.steps
          msg  == <<"message", "roundBackwardTick", call.block.height>>
      IN /\ {i \in DOMAIN s : s[i][1] = "message"} = {1}
         /\ s[1] = msg
         /\ s[2] = SetTickingStep
         /\ \A i \in DOMAIN s :
              s[i][1] \in {"set", "read", "performOps"} => i > 1
         /\ call.events = << <<"roundBackwardTick", call.block.height>> >>
         /\ FinishRoundEvents(call.events) = {}

\* the backward tick of a round-end block whose ops were performed, beside
\* one of the same block that failed in performOps
C24_Witness ==
  \E c, d \in Callers :
    /\ calls[c].pc = "returned" /\ calls[c].kind = "backwardTick"
    /\ calls[c].block.height = ActiveDelegates
    /\ calls[c].opsDone /\ calls[c].result = <<"resolved">>
    /\ Len(calls[c].steps) = 5
    /\ calls[d].pc = "returned" /\ calls[d].kind = "backwardTick"
    /\ calls[d].block.height = ActiveDelegates
    /\ calls[d].failedAt = "performOps"

(***************************************************************************)
(* The writers of the AppState flags.                                      *)
(***************************************************************************)
\* a step of a tick or backward tick call: its start, one of its awaits
\* resolving or rejecting, or its return to the caller
CallStep == \E c \in Callers : calls'[c] # calls[c]

C25_Frame ==
  /\ CallStep => /\ appState'.isLoaded = appState.isLoaded
                 /\ appState'.snapshot = appState.snapshot
  /\ onBlockchainReady => appState' = [appState EXCEPT !.isLoaded = TRUE]
  /\ cleanup => appState' = [appState EXCEPT !.isLoaded = FALSE]
  /\ appState'.isTicking # appState.isTicking =>
       \E c \in Callers :
         /\ calls'[c] # calls[c]
         /\ calls'[c].pc # "idle"
         /\ calls'[c].kind \in {"tick", "backwardTick"}
  /\ appState'.isLoaded # appState.isLoaded => ~CallStep
  /\ appState'.snapshot = appState.snapshot

\* C25: the steps of tick and backwardTick leave rounds.isLoaded and
\* rounds.snapshot as they are; onBlockchainReady writes rounds.isLoaded
\* true and cleanup writes it false, and nothing else; rounds.isTicking
\* changes in steps of tick / backwardTick calls only.
C25_FlagWriters == [][C25_Frame]_vars

\* the blockchain is ready, one call has returned with its ops performed and
\* another one is ticking
C25_Witness ==
  /\ appState.isLoaded
  /\ appState.isTicking
  /\ \E c, d \in Callers :
       /\ calls[c].pc = "returned" /\ calls[c].opsDone
       /\ InFlight(d)

(***************************************************************************)
(* Termination of a call.                                                  *)
(***************************************************************************)
\* C26: when every awaited store read, performOps and message eventually
\* resolves or rejects, a call that has set rounds.isTicking eventually
\* returns, and it leaves the flag false when it does.
C26_ReturnsToIdle ==
  \A c \in Callers :
    InFlight(c) ~> (calls[c].pc = "returned" /\ ~appState.isTicking)

\* a round-end tick that went through all four awaits and resolved, after
\* the other caller's call was rejected at its first await
C26_Witness ==
  \E c, d \in Callers :
    /\ calls[c].pc = "returned" /\ calls[c].kind = "tick"
    /\ calls[c].result = <<"resolved">>
    /\ Len(calls[c].steps) = 5
    /\ calls[d].pc = "returned" /\ calls[d].failedAt = "sumRound"
    /\ ~appState.isTicking

(***************************************************************************)
(* The blocks a round-end settlement sums.                                 *)
(***************************************************************************)
\* the heights of the round of height h that no earlier round end has
\* settled when the ticks are applied in order: the genesis block is settled
\* by its own tick
Unsettled(h) ==
  IF h = 1 THEN {1}
  ELSE {k \in firstInRound(calcRound(h))..h : k > 1}

\* the sums of the persisted blocks of the heights hs, a range of heights
SumsOfHeights(hs) ==
  LET lo == CHOOSE k \in hs : \A j \in hs : k <= j
      n  == Cardinality(hs)
  IN [roundFees      |-> SumSeq([i \in 1..n |-> blocks[lo + i - 1].totalFee]),
      roundRewards   |-> [i \in 1..n |-> blocks[lo + i - 1].reward],
      roundDelegates |-> [i \in 1..n |-> blocks[lo + i - 1].generatorPublicKey]]

\* C27: over ticks applied in order every block is in the sums of exactly
\* one round-end settlement: a round-end tick settles the blocks of its
\* round that no earlier round end has settled, so the settlement at height
\* N does not hold the genesis block again.
C27_SettledOnce ==
  RoundEndTick =>
    LET due == SumsOfHeights(Unsettled(lastCall.scope.block.height))
    IN /\ lastCall.scope.roundDelegates = due.roundDelegates
       /\ lastCall.scope.roundRewards = due.roundRewards
       /\ lastCall.scope.roundFees = due.roundFees

\* what the engine does: the settlement at the last height of a round holds
\* every block of the round, the genesis block in round 1 included
C27_SettlesWholeRound ==
  (RoundEndTick /\ lastCall.scope.block.height > 1) =>
    LET r   == lastCall.scope.round
        all == SumsOfHeights(firstInRound(r)..lastInRound(r))
    IN /\ lastCall.scope.roundDelegates = all.roundDelegates
       /\ lastCall.scope.roundRewards = all.roundRewards
       /\ lastCall.scope.roundFees = all.roundFees

\* the settlement of round 1 at height N credits the generator of the
\* genesis block, which the tick of height 1 had settled
C27_GenesisSettledAgain ==
  /\ RoundEndTick
  /\ lastCall.scope.block.height = ActiveDelegates
  /\ lastCall.scope.roundDelegates[1] = GenesisKey
  /\ lastCall.scope.roundFees >= ActiveDelegates
  /\ accounts[generateAddressByPublicKey(GenesisKey)].balance
       > lastCall.pre[generateAddressByPublicKey(GenesisKey)].balance

(***************************************************************************)
(* The flag rounds.isTicking under overlapping calls.                      *)
(***************************************************************************)
\* C28: while some call is between setting rounds.isTicking and returning,
\* the flag is true: with two calls overlapping it stays true until the
\* last of them has exited.
C28_TrueUntilLastExit == Ticking # {} => appState.isTicking

(***************************************************************************)
(* AccountsModule (src/src/modules/accounts.ts): the three methods that    *)
(* write an account through the account logic.                             *)
(***************************************************************************)
\* the string '', which JavaScript takes for false
EmptyString == 0 - 1

\* a property that is not there
Undefined == <<>>

\* !value in JavaScript, for a property that holds a string or is missing
Not(value) == value = Undefined \/ value[1] = EmptyString

MissingError == "Missing address and public key"

\* the arguments: address and publicKey each missing, empty or given, the
\* given address being that of the key or of another one
AccountArgs ==
  [address   : {Undefined, <<EmptyString>>}
                 \cup {<<generateAddressByPublicKey(pk)>> : pk \in {1, 2}},
   publicKey : {Undefined, <<EmptyString>>} \cup {<<pk>> : pk \in {1, 2}},
   balance   : {1}]

\* delete data.address
deleteAddress(data) == [data EXCEPT !.address = Undefined]

\* variant: the address is derived whenever a public key is given
setAccountAndGetRunPreferKey(data, setOk) ==
  IF Not(data.address) /\ Not(data.publicKey)
  THEN [store |-> <<>>, result |-> [how |-> "rejected", error |-> MissingError]]
  ELSE LET data2   == IF ~Not(data.publicKey)
                      THEN [data EXCEPT !.address =
                              <<generateAddressByPublicKey(data.publicKey[1])>>]
                      ELSE data
           address == data2.address[1]
           rest    == deleteAddress(data2)
       IN IF setOk
          THEN [store  |-> << <<"set", address, rest>>, <<"get", address>> >>,
                result |-> [how |-> "resolved", error |-> "none"]]
          ELSE [store  |-> << <<"set", address, rest>> >>,
                result |-> [how |-> "rejected", error |-> "E1"]]

\* setAccountAndGet: the calls it makes on the account logic and its outcome;
\* setOk tells whether the awaited accountLogic.set resolves
setAccountAndGetRun(data, setOk) ==
  IF Not(data.address) /\ Not(data.publicKey)
  THEN [store |-> <<>>, result |-> [how |-> "rejected", error |-> MissingError]]
  ELSE LET data2   == IF Not(data.address)
                      THEN [data EXCEPT !.address =
                              <<generateAddressByPublicKey(data.publicKey[1])>>]
                      ELSE data
           address == data2.address[1]
           rest    == deleteAddress(data2)
       IN IF setOk
          THEN [store  |-> << <<"set", address, rest>>, <<"get", address>> >>,
                result |-> [how |-> "resolved", error |-> "none"]]
          ELSE [store  |-> << <<"set", address, rest>> >>,
                result |-> [how |-> "rejected", error |-> "E1"]]

\* mergeAccountAndGetSQL: it throws, or returns what accountLogic.merge gives
mergeAccountAndGetSQLRun(diff) ==
  IF Not(diff.address) /\ Not(diff.publicKey)
  THEN [store |-> <<>>, result |-> [how |-> "thrown", error |-> MissingError]]
  ELSE LET diff2   == IF Not(diff.address)
                      THEN [diff EXCEPT !.address =
                              <<generateAddressByPublicKey(diff.publicKey[1])>>]
                      ELSE diff
           address == diff2.address[1]
           rest    == deleteAddress(diff2)
       IN [store  |-> << <<"merge", address, rest>> >>,
           result |-> [how |-> "returned", error |-> "none"]]

\* mergeAccountAndGet: mergeOk tells whether accountLogic.merge resolves
mergeAccountAndGetRun(diff, mergeOk) ==
  IF Not(diff.address) /\ Not(diff.publicKey)
  THEN [store |-> <<>>, result |-> [how |-> "rejected", error |-> MissingError]]
  ELSE LET diff2   == IF Not(diff.address)
                      THEN [diff EXCEPT !.address =
                              <<generateAddressByPublicKey(diff.publicKey[1])>>]
                      ELSE diff
           address == diff2.address[1]
           rest    == deleteAddress(diff2)
       IN [store  |-> << <<"merge", address, rest>> >>,
           result |-> IF mergeOk THEN [how |-> "resolved", error |-> "none"]
                      ELSE [how |-> "rejected", error |-> "E1"]]

\* one call of the accounts module, run to its end: the calls it made on
\* the account logic are kept with its outcome
accountsCall(kind, arg, run) ==
  /\ started < MaxCalls
  /\ started' = started + 1
  /\ lastCall' = [kind |-> kind, arg |-> arg,
                  store |-> run.store, result |-> run.result]
  /\ UNCHANGED <<blocks, applied, accounts, appState, seed, snaps, undone,
                 calls, slates, transport>>

setAccountAndGet(data, setOk) ==
  accountsCall("setAccountAndGet", data, setAccountAndGetRun(data, setOk))

mergeAccountAndGetSQL(diff) ==
  accountsCall("mergeAccountAndGetSQL", diff, mergeAccountAndGetSQLRun(diff))

mergeAccountAndGet(diff, mergeOk) ==
  accountsCall("mergeAccountAndGet", diff, mergeAccountAndGetRun(diff, mergeOk))

NextAccounts ==
  \/ \E data \in AccountArgs, setOk \in BOOLEAN : setAccountAndGet(data, setOk)
  \/ \E diff \in AccountArgs : mergeAccountAndGetSQL(diff)
  \/ \E diff \in AccountArgs, mergeOk \in BOOLEAN : mergeAccountAndGet(diff, mergeOk)

SpecAccounts == Init /\ [][NextAccounts]_vars

AccountsKinds == {"setAccountAndGet", "mergeAccountAndGetSQL", "mergeAccountAndGet"}

\* C29: a call of setAccountAndGet, mergeAccountAndGetSQL or
\* mergeAccountAndGet whose argument has neither an address nor a public key
\* (each missing or empty) fails with 'Missing address and public key' and
\* makes no call on the account logic; any other call makes exactly one
\* writing call, with the address given when there is one and with the
\* address derived from the public key only when there is none.
C29_AddressOrKey ==
  lastCall.kind \in AccountsKinds =>
    LET arg    == lastCall.arg
        store  == lastCall.store
        writes == {i \in DOMAIN store : store[i][1] \in {"set", "merge"}}
    IN IF Not(arg.address) /\ Not(arg.publicKey)
       THEN /\ store = <<>>
            /\ lastCall.result.how \in {"rejected", "thrown"}
            /\ lastCall.result.error = MissingError
       ELSE /\ writes = {1}
            /\ store[1][1] = IF lastCall.kind = "setAccountAndGet"
                              THEN "set" ELSE "merge"
            /\ store[1][2] = IF ~Not(arg.address) THEN arg.address[1]
                              ELSE generateAddressByPublicKey(arg.publicKey[1])
            /\ store[1][3].address = Undefined
            /\ store[1][3].publicKey = arg.publicKey
            /\ lastCall.result.error # MissingError

\* setAccountAndGet with the address of one key and the public key of
\* another: accountLogic.set is called with the address given, then get
C29_Witness ==
  /\ lastCall.kind = "setAccountAndGet"
  /\ ~Not(lastCall.arg.address) /\ ~Not(lastCall.arg.publicKey)
  /\ lastCall.arg.address[1]
       # generateAddressByPublicKey(lastCall.arg.publicKey[1])
  /\ lastCall.result.how = "resolved"
  /\ Len(lastCall.store) = 2
  /\ lastCall.store[1][2] = lastCall.arg.address[1]

\* an argument with an empty address and no public key
C29_WitnessMissing ==
  /\ lastCall.kind = "mergeAccountAndGetSQL"
  /\ lastCall.arg.address = <<EmptyString>>
  /\ lastCall.arg.publicKey = Undefined
  /\ lastCall.result = [how |-> "thrown", error |-> MissingError]


(***************************************************************************)
(* TransportV2API.postBlock (src/src/apis/transportv2API.ts).              *)
(***************************************************************************)
\* the peers whose requests are followed, each standing for an ip and port
TransportPeers == {1, 2}

\* ids of the blocks a request may carry
TransportBlockIds == {1, 2}

\* the request bodies: no Buffer, a Buffer protoBuf cannot decode, a
\* message whose block bytes fromBytes refuses, a block objectNormalize
\* refuses, a sound block
RequestBodies ==
  {[kind |-> k, id |-> 0] :
     k \in {"notBuffer", "undecodable", "badBytes", "badBlock"}}
  \cup {[kind |-> "block", id |-> i] : i \in TransportBlockIds}

Requests == [ip : TransportPeers, body : RequestBodies]

Thrown(e) == [threw |-> TRUE, error |-> e]

Returned(v) == [threw |-> FALSE, value |-> v]

NoBinaryError == "No binary data in request body"

InvalidBinaryError ==
  "Invalid binary data for message transportBlocks transportBlock"

EncodeError == "Failed to encode response"

isBuffer(body) == body.kind # "notBuffer"

\* protoBuf.decode: throws on what is no transportBlock message
decode(body) ==
  IF body.kind = "undecodable" THEN Thrown("decode")
  ELSE Returned([block |-> body])

\* the error of decode is replaced, not passed on
parseRequest(body) ==
  IF ~isBuffer(body) THEN Thrown(NoBinaryError)
  ELSE LET retVal == decode(body)
       IN IF retVal.threw THEN Thrown(InvalidBinaryError) ELSE retVal

\* blockLogic.fromBytes: throws, or gives the block the bytes hold
fromBytes(bytes) ==
  IF bytes.kind = "badBytes" THEN Thrown("fromBytes")
  ELSE Returned([id |-> bytes.id, sound |-> bytes.kind = "block"])

\* blockLogic.objectNormalize: throws on a block the schema refuses
objectNormalize(block) ==
  IF ~block.sound THEN Thrown("objectNormalize")
  ELSE Returned([id |-> block.id])

\* getResponse: encodes the payload when protoBuf.validate accepts it
getResponse(payload, validOk) ==
  IF validOk THEN Returned(payload) ELSE Thrown(EncodeError)

\* the try block of postBlock: the steps entered, and what it gave
postBlockTry(body) ==
  LET requestData == parseRequest(body)
  IN IF requestData.threw
     THEN [steps |-> <<"parseRequest">>, block |-> requestData]
     ELSE LET raw == fromBytes(requestData.value.block)
          IN IF raw.threw
             THEN [steps |-> <<"parseRequest", "fromBytes">>, block |-> raw]
             ELSE [steps |-> <<"parseRequest", "fromBytes",
                               "objectNormalize">>,
                   block |-> objectNormalize(raw.value)]

postBlockRunRemoveOnAnyError(req, busOk, validOk) ==
  LET try == postBlockTry(req.body)
  IN IF try.block.threw
     THEN [steps     |-> try.steps \o <<"peersModule.remove">>,
           removed   |-> <<req.ip>>,
           published |-> <<>>,
           result    |-> [how |-> "rejected", error |-> try.block.error,
                          blockId |-> 0]]
     ELSE LET normalizedBlock == try.block.value
              response == getResponse([success |-> TRUE,
                                       blockId |-> normalizedBlock.id],
                                      validOk)
          IN IF ~busOk
             THEN [steps     |-> try.steps \o <<"bus.message",
                                                "peersModule.remove">>,
                   removed   |-> <<req.ip>>,
                   published |-> << <<"receiveBlock", normalizedBlock>> >>,
                   result    |-> [how |-> "rejected", error |-> "E1",
                                  blockId |-> 0]]
             ELSE [steps     |-> try.steps \o <<"bus.message", "getResponse">>,
                   removed   |-> <<>>,
                   published |-> << <<"receiveBlock", normalizedBlock>> >>,
                   result    |-> IF response.threw
                                 THEN [how |-> "rejected",
                                       error |-> response.error, blockId |-> 0]
                                 ELSE [how |-> "resolved", error |-> "none",
                                       blockId |-> response.value.blockId]]

\* postBlock run to its end: the calls it made in order, the peers it
\* removed, the messages it put on the bus and how its promise settled.
\* busOk: the awaited bus.message resolves; validOk: the response validates
postBlockRun(req, busOk, validOk) ==
  LET try == postBlockTry(req.body)
  IN IF try.block.threw
     THEN [steps     |-> try.steps \o <<"peersModule.remove">>,
           removed   |-> <<req.ip>>,
           published |-> <<>>,
           result    |-> [how |-> "rejected", error |-> try.block.error,
                          blockId |-> 0]]
     ELSE LET normalizedBlock == try.block.value
              response == getResponse([success |-> TRUE,
                                       blockId |-> normalizedBlock.id],
                                      validOk)
          IN IF ~busOk
             THEN [steps     |-> try.steps \o <<"bus.message">>,
                   removed   |-> <<>>,
                   published |-> << <<"receiveBlock", normalizedBlock>> >>,
                   result    |-> [how |-> "rejected", error |-> "E1",
                                  blockId |-> 0]]
             ELSE [steps     |-> try.steps \o <<"bus.message", "getResponse">>,
                   removed   |-> <<>>,
                   published |-> << <<"receiveBlock", normalizedBlock>> >>,
                   result    |-> IF response.threw
                                 THEN [how |-> "rejected",
                                       error |-> response.error, blockId |-> 0]
                                 ELSE [how |-> "resolved", error |-> "none",
                                       blockId |-> response.value.blockId]]

\* one POST /blocks request, served to its end
postBlock(req, busOk, validOk) ==
  /\ started < MaxCalls
  /\ started' = started + 1
  /\ LET run == postBlockRun(req, busOk, validOk)
     IN /\ transport' = [peers     |-> transport.peers \ Range(run.removed),
                         published |-> transport.published \o run.published]
        /\ lastCall' = [kind |-> "postBlock", req |-> req,
                        before |-> transport, steps |-> run.steps,
                        removed |-> run.removed, published |-> run.published,
                        result |-> run.result]
  /\ UNCHANGED <<blocks, applied, accounts, appState, seed, snaps, undone,
                 calls, slates>>

InitTransport ==
  /\ blocks = <<GenesisBlock>>
  /\ applied = 0
  /\ accounts = InitAccounts
  /\ appState = [isLoaded |-> TRUE, isTicking |-> FALSE, snapshot |-> <<>>]
  /\ seed \in Seeds
  /\ lastCall = NoCall
  /\ snaps = <<>>
  /\ undone = <<>>
  /\ calls = [c \in Callers |-> IdleCall]
  /\ started = 0
  /\ slates = NoSlate
  /\ transport = [peers |-> TransportPeers, published |-> <<>>]

NextTransport ==
  \E req \in Requests, busOk \in BOOLEAN, validOk \in BOOLEAN :
    postBlock(req, busOk, validOk)

SpecTransport == InitTransport /\ [][NextTransport]_vars

\* the body of the request decodes into a block that normalizes
SoundBody(body) == body.kind = "block"

\* C30: postBlock puts receiveBlock on the bus only after the body was
\* decoded and normalized, once and with the normalized block; when
\* decoding or normalizing fails it removes the sending peer, rejects with
\* the error thrown and publishes nothing; when they succeed it removes no
\* peer, whatever the bus or the response encoding does afterwards.
C30_ReceiveBlockAfterNormalize ==
  lastCall.kind = "postBlock" =>
    LET req   == lastCall.req
        steps == lastCall.steps
        at(name) == {i \in DOMAIN steps : steps[i] = name}
    IN /\ \A i \in at("bus.message") :
            /\ SoundBody(req.body)
            /\ \E j \in at("objectNormalize") : j < i
            /\ \E j \in at("parseRequest") : j < i
       /\ IF SoundBody(req.body)
          THEN /\ lastCall.removed = <<>>
               /\ at("peersModule.remove") = {}
               /\ transport.peers = lastCall.before.peers
               /\ lastCall.published
                    = << <<"receiveBlock", [id |-> req.body.id]>> >>
               /\ transport.published
                    = lastCall.before.published \o lastCall.published
               /\ Cardinality(at("bus.message")) = 1
          ELSE /\ lastCall.removed = <<req.ip>>
               /\ req.ip \notin transport.peers
               /\ transport.peers = lastCall.before.peers \ {req.ip}
               /\ lastCall.published = <<>>
               /\ transport.published = lastCall.before.published
               /\ lastCall.result.how = "rejected"
               /\ lastCall.result.error =
                    CASE req.body.kind = "notBuffer"   -> NoBinaryError
                      [] req.body.kind = "undecodable" -> InvalidBinaryError
                      [] req.body.kind = "badBytes"    -> "fromBytes"
                      [] req.body.kind = "badBlock"    -> "objectNormalize"

\* after a block of one peer went out on the bus, a known peer sends a block
\* that does not normalize: the peer is removed and nothing more published
C30_Witness ==
  /\ lastCall.kind = "postBlock"
  /\ lastCall.req.body.kind = "badBlock"
  /\ lastCall.req.ip \in lastCall.before.peers
  /\ lastCall.req.ip \notin transport.peers
  /\ Len(transport.published) = 1
  /\ lastCall.result.error = "objectNormalize"

\* a sound block whose bus message rejects: published, the peer kept
C30_WitnessBusRejects ==
  /\ lastCall.kind = "postBlock"
  /\ SoundBody(lastCall.req.body)
  /\ lastCall.result = [how |-> "rejected", error |-> "E1", blockId |-> 0]
  /\ lastCall.req.ip \in transport.peers
  /\ lastCall.published # <<>>

====
